---- MODULE Spec2Model ----
(***************************************************************************)
(* A model of dreambank: the registry-driven fetch protocol               *)
(* (fetchers.py, curation.fetch_source_file), the dreams-page parser       *)
(* (curation.read_source_dreams_as_df), the artifact writers and the       *)
(* curation driver (curation.curate).                                      *)
(*                                                                         *)
(* File contents are small integers; a file that does not exist is Absent. *)
(* Three specifications share the module:                                  *)
(*   Spec        the fetch protocol over a cache and an unreliable network *)
(*   ParseSpec   the dreams-page parser and the table writer               *)
(*   CurateSpec  the writers, the registries and the curation driver       *)
(***************************************************************************)
EXTENDS Integers, Sequences, FiniteSets, TLC

(***************************************************************************)
(* Bounds of the model.                                                    *)
(***************************************************************************)
\* distinct byte contents a file or a download can have: 1..MaxContent
MaxContent == 2
\* fetch calls recorded at a time, over all filenames
MaxCalls == 3
\* spans in the body of a dreams page
MaxSpans == 2
\* curation calls in a run of the model
MaxOps == 3

\* A file's content is a tuple: <<c>> for the bytes numbered c, and the empty
\* tuple for a file that does not exist.
Absent == << >>
Contents == {<<c>> : c \in 1..MaxContent}
\* a download attempt that ends in a network failure
NetErr == <<"network", "failure">>
\* known_hash=None
None == <<"none">>

(***************************************************************************)
(* Filenames.  The curated registry names "<id>.tsv" and "<id>.json", the  *)
(* source registry "<id>/dreams.html", "<id>/info.html" and                *)
(* "<id>/moreinfo.html".  A filename is the pair <<id, rest>>.             *)
(***************************************************************************)
FetchDataset == "alta"
CuratedNames == {<<FetchDataset, ".tsv">>}
SourceNames == {<<FetchDataset, "/dreams.html">>}
\* a filename no registry lists
UnknownName == <<"nosuch", ".tsv">>
FetchNames == CuratedNames \cup SourceNames \cup {UnknownName}

(***************************************************************************)
(* pooch: hashing and the download decision.                               *)
(***************************************************************************)
\* pooch.file_hash: the digest of a file's bytes (sha256, taken as injective)
file_hash(content) == <<"sha256", content>>

\* pooch.hashes.hash_matches: no known hash accepts any file
hash_matches(content, known_hash) ==
    IF known_hash = None THEN TRUE ELSE file_hash(content) = known_hash

\* pooch.core.download_action
\* a download decision that ignores the cache
download_action_always(cached, known_hash) == "download"
download_action(cached, known_hash) ==
    IF cached = Absent THEN "download"
    ELSE IF ~hash_matches(cached, known_hash) THEN "update"
    ELSE "fetch"

\* pooch.create(...) is called without retry_if_failed: pooch's default, 0
\* a repository created with retry_if_failed=1
RetryOnce == 0 + 1
RetryIfFailed == 0

\* download attempts of one stream_download call
Attempts == 1 + RetryIfFailed

\* what the network hands to the attempts of one call: bytes, or a failure
NetworkInputs == [1..Attempts -> Contents \cup {NetErr}]

AttemptOk(bytes, known_hash) == bytes # NetErr /\ hash_matches(bytes, known_hash)

\* a download that is moved into the cache before it is verified
stream_download_unverified(got, known_hash) ==
    IF got[1] # NetErr
    THEN [outcome |-> "path", dl |-> 1, content |-> got[1]]
    ELSE [outcome |-> "RequestException", dl |-> 1, content |-> Absent]

\* pooch.core.stream_download: each attempt downloads to a temporary file and
\* verifies it; the first verified attempt is moved to the cache path, and
\* the last failed attempt raises.
stream_download(got, known_hash) ==
    LET good == {i \in 1..Attempts : AttemptOk(got[i], known_hash)}
        first == CHOOSE i \in good : \A j \in good : i <= j
    IN  IF good # {}
        THEN [outcome |-> "path", dl |-> first, content |-> got[first]]
        ELSE [outcome |-> IF got[Attempts] = NetErr THEN "RequestException"
                          ELSE "IntegrityError",
              dl |-> Attempts, content |-> Absent]

\* pooch.Pooch.fetch on a registry (filename -> digest), the cached file and
\* the network's inputs: the call's outcome and the cache file afterwards
PoochFetch(registry, fname, cached, got) ==
    IF fname \notin DOMAIN registry
    THEN [outcome |-> "UnknownFile", dl |-> 0, pre |-> "unknown", cache |-> cached,
          bytes |-> << >>]
    ELSE LET known == registry[fname]
             action == download_action(cached, known)
             pre == IF cached = Absent THEN "absent"
                    ELSE IF hash_matches(cached, known) THEN "match" ELSE "mismatch"
         IN  IF action = "fetch"
             THEN [outcome |-> "path", dl |-> 0, pre |-> pre, cache |-> cached,
                   bytes |-> << >>]
             ELSE LET r == stream_download(got, known)
                  IN  [outcome |-> r.outcome, dl |-> r.dl, pre |-> pre,
                       cache |-> IF r.outcome = "path" THEN r.content ELSE cached,
                       bytes |-> SubSeq(got, 1, r.dl)]

(***************************************************************************)
(* State.                                                                  *)
(***************************************************************************)
VARIABLES
    page,       \* the dreams page: the spans of its body, in document order
    statement,  \* the integers of the text that follows the page's first h4
    dreams,     \* what read_source_dreams_as_df returned or raised
    tsv,        \* what write_dreams_df_to_csv left in the .tsv file
    cache,      \* the pooch cache directory: filename -> content or Absent
    registry,   \* fetchers.repository.registry: curated filename -> digest
    srcReg,     \* registry-source.txt: whether it exists, and its lines
                \* <<name, digest>>
    hist,       \* per filename, the fetch calls made since the cache file
                \* was last changed from outside
    clean,      \* per filename: the calls of hist started on an empty cache
    remote,     \* what each source URL serves: bytes, or a network failure
    disk,       \* the datasets directory: curated filename -> file
    curReg,     \* registry.txt: whether it exists, and its lines
    last,       \* the last curation call: its arguments, what it raised and
                \* the log of what it did, in order
    ops         \* curation calls made

fetchVars == <<cache, registry, srcReg, hist, clean>>

\* pooch.Pooch.load_registry: the lines of a registry file as a mapping
LoadRegistry(lines) ==
    [n \in {lines[i][1] : i \in 1..Len(lines)} |->
        (lines[CHOOSE i \in 1..Len(lines) : lines[i][1] = n])[2]]

CallRecords ==
    [pre : {"unknown", "absent", "match", "mismatch", "noregistry"},
     dl : 0..Attempts,
     outcome : {"path", "IntegrityError", "RequestException", "UnknownFile", "OSError"},
     served : Contents \cup {Absent},
     bytes : UNION {[1..k -> Contents \cup {NetErr}] : k \in 0..Attempts}]

\* the record of one fetch call: r is PoochFetch's result
CallRecord(r) ==
    [pre |-> r.pre, dl |-> r.dl, outcome |-> r.outcome,
     served |-> IF r.outcome = "path" THEN r.cache ELSE Absent,
     bytes |-> r.bytes]

NoFile == [exists |-> FALSE, lines |-> << >>]

SourceLines(digestOf) ==
    LET n == CHOOSE x \in SourceNames : TRUE
    IN  [exists |-> TRUE, lines |-> << <<n, digestOf[n]>> >>]

RECURSIVE CallsOf(_, _)
CallsOf(h, names) ==
    IF names = {} THEN 0
    ELSE LET n == CHOOSE x \in names : TRUE
         IN  Len(h[n]) + CallsOf(h, names \ {n})

\* the calls on record
Recorded == CallsOf(hist, FetchNames)

FetchInit ==
    /\ cache = [n \in FetchNames |-> Absent]
    /\ registry \in [CuratedNames -> {file_hash(c) : c \in Contents}]
    /\ srcReg \in {NoFile} \cup
                  {SourceLines(h) : h \in [SourceNames -> {file_hash(c) : c \in Contents}]}
    /\ hist = [n \in FetchNames |-> << >>]
    /\ clean = [n \in FetchNames |-> TRUE]

\* fetchers.fetch(fname): repository.fetch(fname)
Fetch(fname) ==
    /\ Recorded < MaxCalls
    /\ \E got \in NetworkInputs :
         LET r == PoochFetch(registry, fname, cache[fname], got)
         IN  /\ cache' = [cache EXCEPT ![fname] = r.cache]
             /\ hist' = [hist EXCEPT ![fname] = Append(@, CallRecord(r))]
    /\ UNCHANGED <<registry, srcReg, clean>>

\* curation.fetch_source_file(dataset, component): load_source_repository()
\* raises OSError without a registry file, then pup.fetch
fetch_source_file(regfile, fname, cached, got) ==
    IF ~regfile.exists
    THEN [outcome |-> "OSError", dl |-> 0, pre |-> "noregistry", cache |-> cached,
          bytes |-> << >>]
    ELSE PoochFetch(LoadRegistry(regfile.lines), fname, cached, got)

FetchSourceFile(fname) ==
    /\ Recorded < MaxCalls
    /\ \E got \in NetworkInputs :
         LET r == fetch_source_file(srcReg, fname, cache[fname], got)
         IN  /\ cache' = [cache EXCEPT ![fname] = r.cache]
             /\ hist' = [hist EXCEPT ![fname] = Append(@, CallRecord(r))]
    /\ UNCHANGED <<registry, srcReg, clean>>

\* the environment overwrites a cached file with other bytes
CorruptCache(fname) ==
    /\ cache[fname] # Absent
    /\ \E c \in Contents \ {cache[fname]} :
         cache' = [cache EXCEPT ![fname] = c]
    /\ hist' = [hist EXCEPT ![fname] = << >>]
    /\ clean' = [clean EXCEPT ![fname] = FALSE]
    /\ UNCHANGED <<registry, srcReg>>

\* the environment removes a cached file
EvictCache(fname) ==
    /\ cache[fname] # Absent
    /\ cache' = [cache EXCEPT ![fname] = Absent]
    /\ hist' = [hist EXCEPT ![fname] = << >>]
    /\ clean' = [clean EXCEPT ![fname] = TRUE]
    /\ UNCHANGED <<registry, srcReg>>

(***************************************************************************)
(* Text.  A string is the tuple of its characters.                         *)
(***************************************************************************)
Digits == {"0", "1", "2", "3", "4", "5", "6", "7", "8", "9"}
\* \s and \S of Python's re, on the characters the pages use
IsSpace(c) == c \in {" ", "\n"}

\* the first position >= p of s whose character satisfies Stop, or Len(s) + 1
RECURSIVE RunEnd(_, _, _)
RunEnd(s, p, stopset) ==
    IF p > Len(s) \/ s[p] \in stopset THEN p ELSE RunEnd(s, p + 1, stopset)

\* the first position >= p of s whose character is not a digit, or Len(s) + 1
RECURSIVE DigitsEnd(_, _)
DigitsEnd(s, p) ==
    IF p > Len(s) \/ s[p] \notin Digits THEN p ELSE DigitsEnd(s, p + 1)

\* the optional group ((\(\S*\)) )? tried at position p: \S* cannot cross a
\* space, so the group is the whole run of non-space characters at p, which
\* must begin with "(", end with ")" and be followed by one space.
\* The position after the group, or p when the group does not match.
DateGroupEnd(s, p) ==
    LET r == RunEnd(s, p, {" ", "\n"})
    IN  IF /\ p <= Len(s) /\ s[p] = "("
           /\ r - 1 > p /\ s[r - 1] = ")"
           /\ r <= Len(s) /\ s[r] = " "
        THEN r + 1 ELSE p

\* re.match(r"^#(\S+) ((\(\S*\)) )?", span_text): group(1), group(3)
LeadMatch(s) ==
    LET e == RunEnd(s, 2, {" ", "\n"})
        q == DateGroupEnd(s, e + 1)
    IN  IF Len(s) >= 1 /\ s[1] = "#" /\ e > 2 /\ e <= Len(s) /\ s[e] = " "
        THEN [matched |-> TRUE, n |-> SubSeq(s, 2, e - 1),
              date |-> IF q > e + 1 THEN SubSeq(s, e + 1, q - 2) ELSE None]
        ELSE [matched |-> FALSE, n |-> << >>, date |-> None]

\* re.sub(r"^#([0-9]+) ((\(\S*\)) )?", "", span_text)
LeadStrip(s) ==
    LET e == DigitsEnd(s, 2)
        q == DateGroupEnd(s, e + 1)
    IN  IF Len(s) >= 1 /\ s[1] = "#" /\ e > 2 /\ e <= Len(s) /\ s[e] = " "
        THEN SubSeq(s, q, Len(s))
        ELSE s

WordsTail == <<" ", "w", "o", "r", "d", "s", ")">>

\* the last position p such that s[p..k] are all digits (k + 1 if s[k] is none)
RECURSIVE DigitsStart(_, _)
DigitsStart(s, k) ==
    IF k < 1 \/ s[k] \notin Digits THEN k + 1 ELSE DigitsStart(s, k - 1)

\* where r"[ \n]?\([0-9]+ words\)$" matches in s, or 0: the pattern is
\* anchored at the end, so it matches at most once
WordCountStart(s) ==
    LET L == Len(s)
        k == L - Len(WordsTail)          \* the last digit
        d == DigitsStart(s, k)           \* the first digit
    IN  IF /\ k >= 2
           /\ SubSeq(s, k + 1, L) = WordsTail
           /\ d <= k /\ d >= 2 /\ s[d - 1] = "("
        THEN IF d >= 3 /\ IsSpace(s[d - 2]) THEN d - 2 ELSE d - 1
        ELSE 0

\* len(re.findall(r"[ \n]?\([0-9]+ words\)$", text))
WordCountMatches(s) == IF WordCountStart(s) = 0 THEN 0 ELSE 1

\* re.sub(r"[ \n]?\([0-9]+ words\)$", "", text)
WordCountStrip(s) ==
    IF WordCountStart(s) = 0 THEN s ELSE SubSeq(s, 1, WordCountStart(s) - 1)

(***************************************************************************)
(* read_source_dreams_as_df.                                               *)
(***************************************************************************)
\* soup.find_all("span", style=False, class_=lambda x: x != "comment"):
\* the spans without a style attribute whose class is not "comment"
RECURSIVE SelectSpans(_)
SelectSpans(spans) ==
    IF spans = << >> THEN << >>
    ELSE LET rest == SelectSpans(Tail(spans))
         IN  IF ~Head(spans).style /\ Head(spans).class # "comment"
             THEN <<Head(spans)>> \o rest ELSE rest

\* a str compared with one of the dicts of data: never equal
StrEqualsRecord(dream_n, record) == FALSE

\* `dream_n in data`, data being the list of the dicts appended so far
InData(dream_n, data) ==
    \E i \in 1..Len(data) : StrEqualsRecord(dream_n, data[i])

\* the loop over the selected spans: the list data, or the first exception.
\* The message of the first assertion reads dream_n, which is unbound in the
\* first iteration and holds the previous span's index in the later ones.
RECURSIVE ParseSpans(_, _)
ParseSpans(spans, data) ==
    IF spans = << >> THEN [kind |-> "ok", data |-> data, names |-> None]
    ELSE LET span_text == Head(spans).text
             match_ == LeadMatch(span_text)
             dream_n == match_.n
             dream_and_wc_text == LeadStrip(span_text)
             n_wc_matches == WordCountMatches(dream_and_wc_text)
             dream_text == WordCountStrip(dream_and_wc_text)
         IN  IF ~match_.matched
             THEN IF data = << >>
                  THEN [kind |-> "UnboundLocalError", data |-> << >>, names |-> None]
                  ELSE [kind |-> "AssertionError", data |-> << >>,
                        names |-> data[Len(data)].n]
             ELSE IF n_wc_matches # 1
             THEN [kind |-> "AssertionError", data |-> << >>, names |-> dream_n]
             ELSE IF InData(dream_n, data)
             THEN [kind |-> "AssertionError", data |-> << >>, names |-> None]
             ELSE ParseSpans(Tail(spans),
                     Append(data, [n |-> dream_n, date |-> match_.date,
                                   dream |-> dream_text]))

\* assert int(n_dreams_total) == int(n_dreams_displayed) == n_dreams_extracted
CountsAgreeDeclaredOnly(stmt, data) == stmt[1] = stmt[2]
CountsAgree(stmt, data) == stmt[1] = stmt[2] /\ stmt[2] = Len(data)

\* .dropna(how="all", axis=1): the date column goes when no record has a date
KeepAllColumns(data) == <<"n", "date", "dream">>
Columns(data) ==
    IF \E i \in 1..Len(data) : data[i].date # None
    THEN <<"n", "date", "dream">> ELSE <<"n", "dream">>

\* the frame pd.DataFrame(data)...sort_index(axis=0): rows in the order of
\* data, each restricted to the columns kept
Frame(data) ==
    LET cols == Columns(data)
    IN  [kind |-> "ok", names |-> None, columns |-> cols,
         rows |-> [i \in 1..Len(data) |->
                     [c \in {cols[j] : j \in 1..Len(cols)} |-> data[i][c]]]]

Raised(kind, names) ==
    [kind |-> kind, names |-> names, columns |-> << >>, rows |-> << >>]

\* read_source_dreams_as_df on the fetched page
read_source_dreams_as_df(spans, stmt) ==
    LET loop == ParseSpans(SelectSpans(spans), << >>)
    IN  IF loop.kind # "ok" THEN Raised(loop.kind, loop.names)
        \* n_dreams_total, n_dreams_displayed = re.findall(...)
        ELSE IF Len(stmt) # 2 THEN Raised("ValueError", None)
        ELSE IF ~CountsAgree(stmt, loop.data) THEN Raised("AssertionError", None)
        \* astype(dict(n=...)) on a frame without columns
        ELSE IF loop.data = << >> THEN Raised("KeyError", None)
        ELSE Frame(loop.data)

\* dreams.to_csv(sep="\t", na_rep="n/a", index=False, ...): the header and
\* the rows of fields
NA == <<"n", "/", "a">>
to_csv(frame) ==
    [exists |-> TRUE, header |-> frame.columns,
     rows |-> [i \in 1..Len(frame.rows) |->
                 [j \in 1..Len(frame.columns) |->
                     LET v == frame.rows[i][frame.columns[j]]
                     IN  IF v = None THEN NA ELSE v]]]

NoTable == [exists |-> FALSE, header |-> << >>, rows |-> << >>]
NotRun == Raised("notrun", None)

(***************************************************************************)
(* The pages the parser is run on.                                         *)
(***************************************************************************)
Indexes == {<<"1", "2">>, <<"1", "1", "1", "a">>}
Dates == {<<"1", "9", "8", "7", "-", "0", "3", "-", "0", "2">>}
DreamText == <<"I", " ", "w", "a", "s", " ", "f", "l", "y", "i", "n", "g", ".">>
WordCount == <<" ", "(", "4", " ", "w", "o", "r", "d", "s", ")">>

\* the flattened text "#<index> [(<date>) ]<text>[ (<N> words)]"; date and
\* word count may be missing (None)
BlockText(index, date, text, wc) ==
    <<"#">> \o index \o <<" ">>
        \o (IF date = None THEN << >> ELSE <<"(">> \o date \o <<")", " ">>)
        \o text
        \o (IF wc = None THEN << >> ELSE wc)

DreamSpans ==
    {[class |-> "", style |-> FALSE, text |-> BlockText(i, d, DreamText, w)] :
        i \in Indexes, d \in Dates \cup {None}, w \in {WordCount, None}}
    \cup {[class |-> "", style |-> FALSE, text |-> DreamText \o WordCount]}
OtherSpans ==
    {[class |-> "comment", style |-> FALSE, text |-> <<"[", "f", "l", "y", "i", "n", "g", "]">>],
     [class |-> "", style |-> TRUE, text |-> <<"D", "r", "e", "a", "m", "s">>]}
Spans == DreamSpans \cup OtherSpans

Pages == UNION {[1..k -> Spans] : k \in 0..MaxSpans}
Statements == [1..2 -> 0..MaxSpans] \cup {<< >>}

ParseInit ==
    /\ page \in Pages
    /\ statement \in Statements
    /\ dreams = NotRun
    /\ tsv = NoTable

ReadSourceDreamsAsDf ==
    /\ dreams' = read_source_dreams_as_df(page, statement)
    /\ UNCHANGED <<page, statement, tsv>>

\* write_dreams_df_to_csv(dataset_id, overwrite)
WriteDreamsDfToCsv(overwrite) ==
    /\ IF tsv.exists /\ ~overwrite
       THEN /\ dreams' = Raised("OSError", None)
            /\ tsv' = tsv
       ELSE /\ dreams' = read_source_dreams_as_df(page, statement)
            /\ tsv' = IF dreams'.kind = "ok" THEN to_csv(dreams') ELSE tsv
    /\ UNCHANGED <<page, statement>>

parseVars == <<page, statement, dreams, tsv>>

ParseNext ==
    \/ ReadSourceDreamsAsDf
    \/ \E overwrite \in BOOLEAN : WriteDreamsDfToCsv(overwrite)

(***************************************************************************)
(* Curation: the source pages, the writers and the registries.             *)
(***************************************************************************)
\* get_all_dataset_ids(): the sorted ids of the grid page, whose bytes the
\* known hash of fetch_grid_file fixes
DatasetIds == <<"alta", "b">>
Components == <<"/dreams.html", "/info.html", "/moreinfo.html">>
Suffixes == <<".tsv", ".json">>

AllSourceNames ==
    {<<DatasetIds[i], Components[j]>> : i \in 1..Len(DatasetIds), j \in 1..Len(Components)}
AllCuratedNames ==
    {<<DatasetIds[i], Suffixes[j]>> : i \in 1..Len(DatasetIds), j \in 1..Len(Suffixes)}

\* the bytes the source pages have when nothing is wrong
GoodBytes == CHOOSE c \in Contents : \A d \in Contents : c[1] <= d[1]

DatedSpan ==
    [class |-> "", style |-> FALSE,
     text |-> BlockText(<<"1", "2">>, <<"1", "9", "8", "7", "-", "0", "3", "-", "0", "2">>, DreamText, WordCount)]
UndatedSpan ==
    [class |-> "", style |-> FALSE,
     text |-> BlockText(<<"1", "2">>, None, DreamText, WordCount)]
TruncatedSpan ==
    [class |-> "", style |-> FALSE,
     text |-> BlockText(<<"1", "2">>, None, DreamText, None)]

\* the dreams page that the bytes stand for: the good bytes a page of one
\* dated dream, the next bytes a page whose dream lost its word count, any
\* other bytes a page of one undated dream
PageOf(content) ==
    IF content = GoodBytes THEN [spans |-> <<DatedSpan>>, stmt |-> <<1, 1>>]
    ELSE IF content = <<GoodBytes[1] + 1>>
    THEN [spans |-> <<TruncatedSpan>>, stmt |-> <<1, 1>>]
    ELSE [spans |-> <<UndatedSpan>>, stmt |-> <<1, 1>>]

\* the info page that the bytes stand for: its labelled values, and whether
\* the "[Back to search form]" footer is there
InfoOf(content) ==
    [long_name |-> <<"series", content[1]>>, n_dreams |-> <<"1">>,
     timeframe |-> <<"1987">>, sex |-> <<"F">>, description |-> <<"text", content[1]>>,
     footer |-> content # <<GoodBytes[1] + 1>>]

\* read_source_info_as_dict on the fetched page
read_source_info_as_dict(dataset_id, info) ==
    IF ~info.footer THEN [kind |-> "AssertionError"]
    ELSE [kind |-> "ok",
          keys |-> <<"short_name", "long_name", "n_dreams", "timeframe", "sex",
                     "description">>,
          values |-> <<dataset_id, info.long_name, info.n_dreams, info.timeframe,
                       info.sex, info.description>>]

\* json.dump(info, fp, indent=4, sort_keys=False, ensure_ascii=False)
json_dump(info) == [exists |-> TRUE, keys |-> info.keys, values |-> info.values]

\* no exception raised
NoException == "none"

\* the world a curation call acts on
World ==
    [cache |-> cache, srcReg |-> srcReg, disk |-> disk, curReg |-> curReg,
     raised |-> NoException, log |-> << >>]

Log(w, event, name) == [w EXCEPT !.log = Append(@, <<event, name>>)]
Raise(w, exception) == [w EXCEPT !.raised = exception]

\* the value of an expression computed once: Value({e(x) : x \in {arg}})
Value(S) == CHOOSE r \in S : TRUE

\* the network's answer to every attempt of a download of the URL of `name`
Served(name) == [i \in 1..Attempts |-> remote[name]]

\* pooch.retrieve(url=url, fname=fn, path=_cache_dir, known_hash=None)
retrieve(w, name) ==
    Value({ IF download_action(w0.cache[name], None) = "fetch" THEN w0
            ELSE IF r.outcome = "path"
                 THEN [Log(w0, "download", name) EXCEPT !.cache[name] = r.content]
                 ELSE Raise(Log(w0, "download", name), r.outcome) :
            w0 \in {w}, r \in {stream_download(Served(name), None)} })

\* fetch_source_file(dataset, component) within a curation call
FetchSource(w, name) ==
    Value({ LET v == [Log(w0, "fetch", name) EXCEPT !.cache[name] = r.cache]
                u == IF r.dl > 0 THEN Log(v, "download", name) ELSE v
            IN  IF r.outcome = "path" THEN u ELSE Raise(u, r.outcome) :
            w0 \in {w},
            r \in {Value({fetch_source_file(x.srcReg, name, x.cache[name], Served(name)) :
                             x \in {w}})} })

\* read_source_dreams_as_df(dataset_id) within a curation call: the world
\* after the fetch, and the frame or the exception
ReadDreams(w, d) ==
    LET name == <<d, "/dreams.html">>
    IN  Value({ IF v.raised # NoException THEN [w |-> v, frame |-> NotRun]
                ELSE LET pg == PageOf(v.cache[name])
                         r == read_source_dreams_as_df(pg.spans, pg.stmt)
                     IN  [w |-> IF r.kind = "ok" THEN Log(v, "parse", name)
                                ELSE Raise(Log(v, "parse", name), r.kind),
                          frame |-> r] :
                v \in {FetchSource(w, name)} })

\* read_source_info_as_dict(dataset_id) within a curation call
ReadInfo(w, d) ==
    LET name == <<d, "/info.html">>
    IN  Value({ IF v.raised # NoException THEN [w |-> v, info |-> [kind |-> "notrun"]]
                ELSE LET r == read_source_info_as_dict(d, InfoOf(v.cache[name]))
                     IN  [w |-> IF r.kind = "ok" THEN Log(v, "parse", name)
                                ELSE Raise(Log(v, "parse", name), r.kind),
                          info |-> r] :
                v \in {FetchSource(w, name)} })

\* a writer that looks for the destination only after it has parsed
write_dreams_df_to_csv_late_check(w, d, overwrite) ==
    LET fp == <<d, ".tsv">>
    IN  Value({ IF rd.w.raised # NoException THEN rd.w
                ELSE IF rd.w.disk[fp].exists /\ ~overwrite
                THEN Raise(rd.w, "FileExists")
                ELSE [Log(rd.w, "write", fp) EXCEPT !.disk[fp] = to_csv(rd.frame)] :
                rd \in {ReadDreams(w, d)} })

\* write_dreams_df_to_csv(dataset_id, overwrite)
write_dreams_df_to_csv(w, d, overwrite) ==
    LET fp == <<d, ".tsv">>
    IN  Value({ IF w0.disk[fp].exists /\ ~overwrite THEN Raise(w0, "FileExists")
                ELSE Value({ IF rd.w.raised # NoException THEN rd.w
                             ELSE [Log(rd.w, "write", fp) EXCEPT
                                      !.disk[fp] = to_csv(rd.frame)] :
                             rd \in {ReadDreams(w0, d)} }) :
                w0 \in {w} })

\* write_info_dict_to_json(dataset_id, overwrite)
write_info_dict_to_json(w, d, overwrite) ==
    LET fp == <<d, ".json">>
    IN  Value({ IF w0.disk[fp].exists /\ ~overwrite THEN Raise(w0, "FileExists")
                ELSE Value({ IF rd.w.raised # NoException THEN rd.w
                             ELSE [Log(rd.w, "write", fp) EXCEPT
                                      !.disk[fp] = json_dump(rd.info)] :
                             rd \in {ReadInfo(w0, d)} }) :
                w0 \in {w} })

\* the names a registry lists, in the order the loops write them
RECURSIVE Names(_, _, _, _)
Names(ids, parts, i, j) ==
    IF i > Len(ids) THEN << >>
    ELSE IF j > Len(parts) THEN Names(ids, parts, i + 1, 1)
    ELSE << <<ids[i], parts[j]>> >> \o Names(ids, parts, i, j + 1)

SourceRegistryNames == Names(DatasetIds, Components, 1, 1)
CuratedRegistryNames == Names(DatasetIds, Suffixes, 1, 1)

\* the loop of write_source_registry from the k-th name on: retrieve, hash
\* the cached file, write the line
RECURSIVE SourceLoop(_, _)
SourceLoop(w, k) ==
    IF k > Len(SourceRegistryNames) THEN w
    ELSE LET fn == SourceRegistryNames[k]
         IN  Value({ IF v.raised # NoException THEN v
                     ELSE SourceLoop(
                            [Log(v, "line", fn) EXCEPT
                               !.srcReg.lines = Append(@, <<fn, file_hash(v.cache[fn])>>)],
                            k + 1) :
                     v \in {retrieve(w, fn)} })

\* write_source_registry(overwrite): open(..., "wt") empties the file before
\* the first line is written
write_source_registry(w, overwrite) ==
    Value({ IF w0.srcReg.exists /\ ~overwrite THEN Raise(w0, "FileExists")
            ELSE SourceLoop([Log(w0, "open", "registry-source.txt") EXCEPT
                                !.srcReg = [exists |-> TRUE, lines |-> << >>]], 1) :
            w0 \in {w} })

\* the loop of write_curated_registry from the k-th name on: pooch.file_hash
\* raises when the artifact is not there
RECURSIVE CuratedLoop(_, _)
CuratedLoop(w, k) ==
    IF k > Len(CuratedRegistryNames) THEN w
    ELSE LET fname == CuratedRegistryNames[k]
         IN  Value({ IF ~w0.disk[fname].exists THEN Raise(w0, "FileNotFoundError")
                     ELSE CuratedLoop(
                            [Log(w0, "line", fname) EXCEPT
                               !.curReg.lines =
                                   Append(@, <<fname, file_hash(w0.disk[fname])>>)],
                            k + 1) :
                     w0 \in {w} })

\* a rebuild that opens the registry for appending: the old lines stay
write_curated_registry_append(w, overwrite) ==
    Value({ IF w0.curReg.exists /\ ~overwrite THEN Raise(w0, "FileExists")
            ELSE CuratedLoop([Log(w0, "open", "registry.txt") EXCEPT
                                 !.curReg.exists = TRUE], 1) :
            w0 \in {w} })

\* write_curated_registry(overwrite)
write_curated_registry(w, overwrite) ==
    Value({ IF w0.curReg.exists /\ ~overwrite THEN Raise(w0, "FileExists")
            ELSE CuratedLoop([Log(w0, "open", "registry.txt") EXCEPT
                                 !.curReg = [exists |-> TRUE, lines |-> << >>]], 1) :
            w0 \in {w} })

\* the loop of the "tsv" step of curate from the i-th dataset on
RECURSIVE TsvLoop(_, _, _)
TsvLoop(w, i, overwrite) ==
    IF i > Len(DatasetIds) THEN w
    ELSE Value({ IF v.raised # NoException THEN v
                 ELSE Value({ IF u.raised # NoException THEN u
                              ELSE TsvLoop(u, i + 1, overwrite) :
                              u \in {write_info_dict_to_json(v, DatasetIds[i], overwrite)} }) :
                 v \in {write_dreams_df_to_csv(w, DatasetIds[i], overwrite)} })

\* a "tsv" step that rebuilds the registry first
curate_tsv_registry_first(w, overwrite) ==
    Value({ IF v.raised # NoException THEN v ELSE TsvLoop(v, 1, overwrite) :
            v \in {write_curated_registry(w, overwrite)} })

\* curate() with steps = ["tsv"]
curate_tsv(w, overwrite) ==
    Value({ IF v.raised # NoException THEN v ELSE write_curated_registry(v, overwrite) :
            v \in {TsvLoop(w, 1, overwrite)} })

NoCall == [op |-> "none", d |-> "", overwrite |-> FALSE, raised |-> NoException, log |-> << >>]

\* the pages as they are when nothing is wrong
AllGood == [n \in AllSourceNames |-> GoodBytes]

\* a curation run starts with no registry, no artifact and an empty cache; at
\* most one source URL serves other bytes or fails
CurateInit ==
    /\ cache = [n \in AllSourceNames |-> Absent]
    /\ srcReg = NoFile
    /\ disk = [n \in AllCuratedNames |-> NoTable]
    /\ curReg = NoFile
    /\ remote \in {AllGood} \cup
                  {[AllGood EXCEPT ![n] = b] :
                      n \in AllSourceNames, b \in (Contents \ {GoodBytes}) \cup {NetErr}}
    /\ last = NoCall
    /\ ops = 0

\* the state after a curation call that left the world w
Done(w, op, d, overwrite) ==
    /\ ops < MaxOps
    /\ ops' = ops + 1
    /\ cache' = w.cache
    /\ srcReg' = w.srcReg
    /\ disk' = w.disk
    /\ curReg' = w.curReg
    /\ last' = [op |-> op, d |-> d, overwrite |-> overwrite,
                raised |-> w.raised, log |-> w.log]
    /\ UNCHANGED remote

CallWriteSourceRegistry(overwrite) ==
    Done(write_source_registry(World, overwrite), "write_source_registry", "", overwrite)

CallWriteCuratedRegistry(overwrite) ==
    Done(write_curated_registry(World, overwrite), "write_curated_registry", "", overwrite)

CallWriteDreams(d, overwrite) ==
    Done(write_dreams_df_to_csv(World, d, overwrite), "write_dreams_df_to_csv", d, overwrite)

CallWriteInfo(d, overwrite) ==
    Done(write_info_dict_to_json(World, d, overwrite), "write_info_dict_to_json", d, overwrite)

\* curate() with steps = ["tsv"] and -o or not
CurateTsv(overwrite) ==
    Done(curate_tsv(World, overwrite), "curate_tsv", "", overwrite)

curateVars == <<remote, disk, curReg, last, ops>>

CurateNext ==
    \/ \E overwrite \in BOOLEAN : CallWriteSourceRegistry(overwrite)
    \/ \E overwrite \in BOOLEAN : CallWriteCuratedRegistry(overwrite)
    \/ \E i \in 1..Len(DatasetIds), overwrite \in BOOLEAN :
          CallWriteDreams(DatasetIds[i], overwrite)
    \/ \E i \in 1..Len(DatasetIds), overwrite \in BOOLEAN :
          CallWriteInfo(DatasetIds[i], overwrite)
    \/ \E overwrite \in BOOLEAN : CurateTsv(overwrite)

(***************************************************************************)
(* The specifications.                                                     *)
(***************************************************************************)
vars == <<parseVars, fetchVars, curateVars>>

NoPage == page = << >> /\ statement = << >> /\ dreams = NotRun /\ tsv = NoTable

NoCuration ==
    /\ remote = [n \in FetchNames |-> GoodBytes]
    /\ disk = [n \in AllCuratedNames |-> NoTable]
    /\ curReg = NoFile
    /\ last = NoCall
    /\ ops = 0

NoFetch ==
    /\ registry = [n \in CuratedNames |-> file_hash(GoodBytes)]
    /\ hist = [n \in FetchNames |-> << >>]
    /\ clean = [n \in FetchNames |-> TRUE]

\* the fetch protocol
Init == FetchInit /\ NoPage /\ NoCuration

FetchNext ==
    \/ \E n \in FetchNames \ SourceNames : Fetch(n)
    \/ \E n \in SourceNames : FetchSourceFile(n)
    \/ \E n \in FetchNames : CorruptCache(n)
    \/ \E n \in FetchNames : EvictCache(n)

Next == FetchNext /\ UNCHANGED <<parseVars, curateVars>>

Spec == Init /\ [][Next]_vars

\* the parser and the table writer, on every page of Pages
InitParse ==
    /\ ParseInit
    /\ cache = [n \in FetchNames |-> Absent]
    /\ srcReg = NoFile
    /\ NoFetch
    /\ NoCuration

NextParse == ParseNext /\ UNCHANGED <<fetchVars, curateVars>>

ParseSpec == InitParse /\ [][NextParse]_vars

\* the writers, the registries and the "tsv" step of curate
InitCurate == CurateInit /\ NoPage /\ NoFetch

NextCurate == CurateNext /\ UNCHANGED <<parseVars, registry, hist, clean>>

CurateSpec == InitCurate /\ [][NextCurate]_vars

(***************************************************************************)
(* The fetch protocol: claims C1 to C3.                                    *)
(***************************************************************************)
TypeOK ==
    /\ cache \in [FetchNames -> Contents \cup {Absent}]
    /\ \A n \in FetchNames :
         /\ Len(hist[n]) <= MaxCalls
         /\ \A i \in 1..Len(hist[n]) : hist[n][i] \in CallRecords

\* the filename has an entry in the registry its fetch function loads
Registered(n) ==
    \/ n \in DOMAIN registry
    \/ n \in SourceNames /\ srcReg.exists /\ n \in DOMAIN LoadRegistry(srcReg.lines)

KnownDigest(n) ==
    IF n \in DOMAIN registry THEN registry[n] ELSE LoadRegistry(srcReg.lines)[n]

RegisteredNames == {n \in FetchNames : Registered(n)}

\* a call that found a cached copy whose digest equals the registry digest
\* returned the cached path without a download
CacheHitNoDownload ==
    \A n \in RegisteredNames : \A i \in 1..Len(hist[n]) :
        hist[n][i].pre = "match" =>
            hist[n][i].dl = 0 /\ hist[n][i].outcome = "path"

\* the first two calls since the cache was empty: one download in all, the
\* second call served from the cache
SecondServedFromCache(n) ==
    /\ hist[n][1].dl + hist[n][2].dl = 1
    /\ hist[n][2].dl = 0
    /\ hist[n][2].outcome = "path"

C2_MismatchOneDownloadVerified ==
    \A n \in RegisteredNames : \A i \in 1..Len(hist[n]) :
        LET c == hist[n][i] IN
        /\ c.pre = "mismatch" =>
             /\ c.dl = 1
             /\ c.bytes[1] # NetErr =>
                  IF file_hash(c.bytes[1]) = KnownDigest(n)
                  THEN c.outcome = "path" /\ c.served = c.bytes[1]
                  ELSE c.outcome = "IntegrityError" /\ c.served = Absent
        /\ c.outcome = "path" => file_hash(c.served) = KnownDigest(n)

\* a corrupted cached copy was re-downloaded once and the bytes failed again
C2_Witness ==
    \E n \in RegisteredNames : \E i \in 1..Len(hist[n]) :
        /\ hist[n][i].pre = "mismatch"
        /\ hist[n][i].dl = 1
        /\ hist[n][i].outcome = "IntegrityError"
        /\ cache[n] # Absent /\ file_hash(cache[n]) # KnownDigest(n)

\* the first downloaded bytes of the call failed digest verification
FirstDownloadFailsVerification(n, c) ==
    /\ c.dl >= 1
    /\ c.bytes[1] # NetErr
    /\ file_hash(c.bytes[1]) # KnownDigest(n)

Selected == SelectSpans(page)

\* C4: read_source_dreams_as_df never returns two records with the same
\* dream index n: a page with two selected blocks of the same index is
\* rejected.
C4_NoDuplicateIndex ==
    dreams.kind = "ok" =>
        \A i, j \in 1..Len(dreams.rows) :
            i # j => dreams.rows[i].n # dreams.rows[j].n

\* C5: read_source_dreams_as_df returns only if the declared total, the
\* declared displayed count and the number of records extracted are all
\* equal, and then returns that many records, one per selected block, in
\* document order.
C5_CountsAgreeInDocumentOrder ==
    dreams.kind = "ok" =>
        /\ Len(statement) = 2
        /\ statement[1] = statement[2]
        /\ statement[2] = Len(dreams.rows)
        /\ Len(dreams.rows) = Len(Selected)
        /\ \A i \in 1..Len(dreams.rows) :
             dreams.rows[i].n = LeadMatch(Selected[i].text).n

\* two records returned in document order, which is not the order of n
C5_Witness ==
    /\ dreams.kind = "ok"
    /\ Len(dreams.rows) = 2
    /\ statement = <<2, 2>>
    /\ dreams.rows[1].n = <<"1", "2">>
    /\ dreams.rows[2].n = <<"1", "1", "1", "a">>

\* C6: a block "#<index> (<date>) <text> (<N> words)" gives the record
\* n = <index>, date = <date> without the parentheses, dream = <text>.
C6_RecordOfDatedBlock ==
    dreams.kind = "ok" =>
        \A i \in 1..Len(Selected) : \A index \in Indexes : \A date \in Dates :
            Selected[i].text = BlockText(index, date, DreamText, WordCount) =>
                /\ dreams.rows[i].n = index
                /\ "date" \in DOMAIN dreams.rows[i]
                /\ dreams.rows[i].date = date
                /\ dreams.rows[i].dream = DreamText

\* the date of the record that block i of the page gives
DateOfBlock(i) == LeadMatch(Selected[i].text).date

Writers ==
    {"write_dreams_df_to_csv", "write_info_dict_to_json",
     "write_source_registry", "write_curated_registry"}

\* the destination file of a writer exists
DestinationExists(op, d) ==
    CASE op = "write_dreams_df_to_csv" -> disk[<<d, ".tsv">>].exists
      [] op = "write_info_dict_to_json" -> disk[<<d, ".json">>].exists
      [] op = "write_source_registry" -> srcReg.exists
      [] op = "write_curated_registry" -> curReg.exists
      [] OTHER -> FALSE

\* C7: each of the four writers, called with overwrite false on a destination
\* that exists, fails; it leaves the destination (and every other file)
\* unchanged and has fetched, parsed and written nothing before failing.
C7_ExistingDestinationRefused ==
    [][(/\ ops' = ops + 1
        /\ last'.op \in Writers
        /\ ~last'.overwrite
        /\ DestinationExists(last'.op, last'.d))
       => /\ last'.raised = "FileExists"
          /\ last'.log = << >>
          /\ UNCHANGED <<cache, srcReg, disk, curReg>>]_vars

\* write_dreams_df_to_csv refused to overwrite a table, with its source
\* registry in place
C7_Witness ==
    /\ last.op = "write_dreams_df_to_csv"
    /\ last.raised = "FileExists"
    /\ ~last.overwrite
    /\ disk[<<last.d, ".tsv">>].exists
    /\ srcReg.exists

RECURSIVE LineNames(_)
LineNames(lines) ==
    IF lines = << >> THEN << >> ELSE <<Head(lines)[1]>> \o LineNames(Tail(lines))

\* C9: a reader of a registry file never sees an empty or partially written
\* registry: whenever the file exists it lists every name, also after a
\* rebuild that aborted on a download or hashing error.
C9_RegistryNeverPartial ==
    /\ srcReg.exists => LineNames(srcReg.lines) = SourceRegistryNames
    /\ curReg.exists => LineNames(curReg.lines) = CuratedRegistryNames

\* the position of the first event <<event, name>> in the log, or 0
RECURSIVE Position(_, _, _)
Position(log, e, k) ==
    IF k > Len(log) THEN 0
    ELSE IF log[k] = e THEN k ELSE Position(log, e, k + 1)

Opened(log) == Position(log, <<"open", "registry.txt">>, 1)
Written(log, name) == Position(log, <<"write", name>>, 1)

\* the artifact that a writer leaves for the source page cached in c
ArtifactOf(name, c) ==
    IF name[2] = ".tsv"
    THEN LET pg == PageOf(c[<<name[1], "/dreams.html">>])
         IN  to_csv(read_source_dreams_as_df(pg.spans, pg.stmt))
    ELSE json_dump(read_source_info_as_dict(name[1], InfoOf(c[<<name[1], "/info.html">>])))

\* C10: the "tsv" step opens the curated registry only after it has written
\* the table and the JSON of every dataset; when a dataset fails, the step
\* stops there: the registry file is as it was, the artifacts written for the
\* earlier datasets are as written and the other artifacts are as they were.
C10_RegistryAfterAllArtifacts ==
    [][(ops' = ops + 1 /\ last'.op = "curate_tsv") =>
        /\ (curReg' # curReg \/ Opened(last'.log) # 0) =>
              \A name \in AllCuratedNames :
                  /\ Written(last'.log, name) # 0
                  /\ Written(last'.log, name) < Opened(last'.log)
        /\ (last'.raised # NoException /\ Opened(last'.log) = 0) =>
              /\ curReg' = curReg
              /\ \A name \in AllCuratedNames :
                    IF Written(last'.log, name) # 0
                    THEN disk'[name] = ArtifactOf(name, cache')
                    ELSE disk'[name] = disk[name]]_vars

\* the step failed on the second dataset after writing the first one's files
C10_Witness ==
    /\ last.op = "curate_tsv"
    /\ last.raised = "AssertionError"
    /\ Written(last.log, <<"alta", ".tsv">>) # 0
    /\ Written(last.log, <<"alta", ".json">>) # 0
    /\ Written(last.log, <<"b", ".tsv">>) = 0
    /\ disk[<<"alta", ".tsv">>].exists
    /\ ~disk[<<"b", ".tsv">>].exists
    /\ ~curReg.exists

(***************************************************************************)
(* The leading token and the parse errors: claims C11, C12.                *)
(***************************************************************************)
\* the position after the token that re.match consumed: match_.end()
MatchEnd(s) == DateGroupEnd(s, RunEnd(s, 2, {" ", "\n"}) + 1)

\* C11: for every block that the leading-token match accepts, also one whose
\* index is not purely numeric, the dream text of its record is the block
\* without the token that was matched (and without the word count).
C11_MatchedTokenStripped ==
    dreams.kind = "ok" =>
        \A i \in 1..Len(dreams.rows) :
            LET span_text == Selected[i].text
            IN  dreams.rows[i].dream =
                    WordCountStrip(SubSeq(span_text, MatchEnd(span_text), Len(span_text)))

\* block i of the page has a leading token
BlockMatches(i) == LeadMatch(Selected[i].text).matched

\* block i of the page passes the two assertions on a block
BlockParses(i) ==
    BlockMatches(i) /\ WordCountMatches(LeadStrip(Selected[i].text)) = 1

\* C12: when the parser fails on a block, first or later, the exception is
\* an assertion error that names the index of that block, or no index when
\* the block has none; it never names the index of another block.
C12_ParseErrorNamesFailingBlock ==
    \A i \in 1..Len(Selected) :
        (/\ dreams.kind \notin {"notrun", "OSError"}
         /\ ~BlockParses(i)
         /\ \A j \in 1..(i - 1) : BlockParses(j)) =>
            /\ dreams.kind = "AssertionError"
            /\ dreams.names = IF BlockMatches(i) THEN LeadMatch(Selected[i].text).n
                              ELSE None

(***************************************************************************)
(* The registries a curation run leaves: claims C13, C14.                  *)
(***************************************************************************)
Downloaded(log, name) == Position(log, <<"download", name>>, 1)

\* C13: a run of write_source_registry that finishes downloads each of the
\* three pages of every dataset, also when a copy is already in the cache,
\* and the digest it writes for a page is that of the bytes served in the run.
C13_DownloadsEveryPageEveryRun ==
    (last.op = "write_source_registry" /\ last.raised = NoException) =>
        /\ Len(srcReg.lines) = Len(SourceRegistryNames)
        /\ \A k \in 1..Len(srcReg.lines) :
             LET name == srcReg.lines[k][1]
             IN  /\ Downloaded(last.log, name) # 0
                 /\ srcReg.lines[k][2] = file_hash(remote[name])

\* C14: when the "tsv" step finishes without error, the curated registry
\* has two lines per dataset, <id>.tsv then <id>.json, the datasets in the
\* order of get_all_dataset_ids, no name twice, and the digest of each line
\* is the digest of the artifact of that name as it is on disk.
C14_CuratedRegistryMatchesDisk ==
    (last.op = "curate_tsv" /\ last.raised = NoException) =>
        /\ curReg.exists
        /\ Len(curReg.lines) = 2 * Len(DatasetIds)
        /\ \A i \in 1..Len(DatasetIds) :
             /\ curReg.lines[2 * i - 1][1] = <<DatasetIds[i], ".tsv">>
             /\ curReg.lines[2 * i][1] = <<DatasetIds[i], ".json">>
        /\ \A k, m \in 1..Len(curReg.lines) :
             k # m => curReg.lines[k][1] # curReg.lines[m][1]
        /\ \A k \in 1..Len(curReg.lines) :
             /\ disk[curReg.lines[k][1]].exists
             /\ curReg.lines[k][2] = file_hash(disk[curReg.lines[k][1]])

\* the step finished over a registry and artifacts that an earlier call left
C14_Witness ==
    /\ last.op = "curate_tsv"
    /\ last.raised = NoException
    /\ last.overwrite
    /\ ops >= 2
    /\ Opened(last.log) # 0
    /\ Len(curReg.lines) = 2 * Len(DatasetIds)

====
